---- MODULE Spec2Model ----
(***************************************************************************)
(* Model of pricecheck.py: one run of the script, from the creation of the *)
(* browser session to the finally-block that quits it.                     *)
(*                                                                         *)
(* Strings the code slices or edits (URLs, element texts) are sequences of *)
(* one-character strings.  A price is a decimal number m / 10^e kept in    *)
(* lowest terms of e, or the absent price None.                            *)
(***************************************************************************)
EXTENDS Integers, Sequences, FiniteSets, TLC

VARIABLES
    file,           \* holdings.csv as csv.reader yields it: a sequence of rows
    pc,             \* position of the script
    sessions,       \* number of browser sessions webdriver.Chrome has created
    browserOptions, \* arguments of the options object given to webdriver.Chrome
    serviceKwargs,  \* arguments of the options object given to Service
    quits,          \* number of calls of chromium_driver.quit()
    holdings,       \* main's local `holdings`
    idx,            \* 1-based position of the for loop in holdings
    page,           \* the page the session currently shows
    navs,           \* every driver.get call: position, page loaded (if any)
    applied,        \* every extractor call: position, extractor, page read
    prices,         \* main's local `prices`
    outFile,        \* the rows of prices.csv
    written,        \* whether to_csv has written prices.csv
    err,            \* the exception that ended main or the script, or "none"
    unit            \* a GBPPrice construction on its own: arguments and outcome

vars == <<file, pc, sessions, browserOptions, serviceKwargs, quits, holdings,
          idx, page, navs, applied, prices, outFile, written, err, unit>>

(***************************************************************************)
(* Bounds of the model                                                     *)
(***************************************************************************)
MaxRows == 2
MaxAmount == 60

(***************************************************************************)
(* Program constants                                                       *)
(***************************************************************************)
TagStart == 12
TagEnd == 15
TruncLen == 8
LabelTail == 5

Min(a, b) == IF a < b THEN a ELSE b
Max(a, b) == IF a > b THEN a ELSE b

(***************************************************************************)
(* Python string operations                                                *)
(***************************************************************************)
\* s[a:b] for 0 <= a <= b
Slice(s, a, b) == SubSeq(s, a + 1, Min(b, Len(s)))

\* s[-n:]
LastN(s, n) == SubSeq(s, Max(1, Len(s) - n + 1), Len(s))

\* s.replace(c, '')
RECURSIVE Remove(_, _)
Remove(s, c) ==
    IF s = <<>> THEN <<>>
    ELSE IF Head(s) = c THEN Remove(Tail(s), c)
    ELSE <<Head(s)>> \o Remove(Tail(s), c)

RECURSIVE LStrip(_, _)
LStrip(s, chars) ==
    IF s # <<>> /\ Head(s) \in chars THEN LStrip(Tail(s), chars) ELSE s

RECURSIVE RStrip(_, _)
RStrip(s, chars) ==
    IF s # <<>> /\ s[Len(s)] \in chars
    THEN RStrip(SubSeq(s, 1, Len(s) - 1), chars) ELSE s

\* s.strip(chars)
Strip(s, chars) == RStrip(LStrip(s, chars), chars)

(***************************************************************************)
(* float(): over the characters the model's texts are written in, a        *)
(* number is optional surrounding blanks, an optional sign, and digits     *)
(* with at most one point and at least one digit.                          *)
(***************************************************************************)
Digits == {"0", "1", "2", "3", "4", "5", "6", "7", "8", "9"}

DigitVal(c) ==
    CASE c = "0" -> 0 [] c = "1" -> 1 [] c = "2" -> 2 [] c = "3" -> 3
      [] c = "4" -> 4 [] c = "5" -> 5 [] c = "6" -> 6 [] c = "7" -> 7
      [] c = "8" -> 8 [] c = "9" -> 9

Unsigned(s) ==
    LET t == Strip(s, {" "}) IN
    IF t # <<>> /\ Head(t) \in {"+", "-"} THEN Tail(t) ELSE t

Negative(s) ==
    LET t == Strip(s, {" "}) IN t # <<>> /\ Head(t) = "-"

FloatOK(s) ==
    LET u == Unsigned(s) IN
    /\ \A i \in 1..Len(u) : u[i] \in Digits \cup {"."}
    /\ Cardinality({i \in 1..Len(u) : u[i] = "."}) <= 1
    /\ \E i \in 1..Len(u) : u[i] \in Digits

RECURSIVE Mantissa(_, _)
Mantissa(u, acc) ==
    IF u = <<>> THEN acc
    ELSE IF Head(u) = "." THEN Mantissa(Tail(u), acc)
    ELSE Mantissa(Tail(u), 10 * acc + DigitVal(Head(u)))

Decimals(u) ==
    IF \E i \in 1..Len(u) : u[i] = "."
    THEN Len(u) - (CHOOSE i \in 1..Len(u) : u[i] = ".")
    ELSE 0

\* a decimal number m / 10^e with no trailing zero among its e decimals
RECURSIVE Norm(_, _)
Norm(m, e) ==
    IF e > 0 /\ m % 10 = 0 THEN Norm(m \div 10, e - 1)
    ELSE [isNone |-> FALSE, m |-> m, e |-> e]

FloatVal(s) ==
    LET u == Unsigned(s)
        m == Mantissa(u, 0)
    IN  Norm(IF Negative(s) THEN 0 - m ELSE m, Decimals(u))

None == [isNone |-> TRUE, m |-> 0, e |-> 0]

(***************************************************************************)
(* Outcomes of a call: a returned value or a raised exception              *)
(***************************************************************************)
Return(v) == [exc |-> "none", val |-> v]
Raise(x) == [exc |-> x, val |-> None]

(***************************************************************************)
(* class GBPPrice                                                          *)
(***************************************************************************)
GBP == <<"G", "B", "P">>
GBX == <<"G", "B", "X">>

USD == <<"U", "S", "D">>

\* the value argument: a str or a float
Str(t) == [kind |-> "str", text |-> t, num |-> None]
Num(v) == [kind |-> "float", text |-> <<>>, num |-> v]

\* float(value)
Float(value) ==
    IF value.kind = "float" THEN Return(value.num)
    ELSE IF FloatOK(value.text) THEN Return(FloatVal(value.text))
    ELSE Raise("ValueError")

\* value *= 0.1
Tenth(v) == Norm(v.m, v.e + 1)

\* value *= 0.01
Hundredth(v) == Norm(v.m, v.e + 2)

\* an else branch that passes instead of raising
GBPPriceAnyCurrency(value, currency) ==
    IF Float(value).exc # "none" THEN Float(value)
    ELSE IF currency = GBX THEN Return(Hundredth(Float(value).val))
    ELSE Return(Float(value).val)

GBPPrice(value, currency) ==
    IF Float(value).exc # "none" THEN Float(value)
    ELSE IF currency = GBP THEN Return(Float(value).val)
    ELSE IF currency = GBX THEN Return(Hundredth(Float(value).val))
    ELSE Raise("NotImplementedError")

\* currency: str = 'GBP'
GBPPriceDefault(value) == GBPPrice(value, GBP)

(***************************************************************************)
(* Pages: what find_element gives for each of the three XPaths             *)
(***************************************************************************)
Found(t) == [exc |-> "none", text |-> t]
NotFound(x) == [exc |-> x, text |-> <<>>]
LookupErrors == {"NoSuchElementException", "TimeoutException"}

\* "1,234,567.89", "12.50", "n/a"
PriceLong == <<"1", ",", "2", "3", "4", ",", "5", "6", "7", ".", "8", "9">>
PriceShort == <<"1", "2", ".", "5", "0">>
PriceNotANumber == <<"n", "/", "a">>
PriceTexts == {PriceLong, PriceShort, PriceNotANumber}

\* "Price (GBX)", "GBP", "(GBX))", "(USD)"
LabelGBX == <<"P", "r", "i", "c", "e", " ", "(", "G", "B", "X", ")">>
LabelGBP == <<"G", "B", "P">>
LabelNested == <<"(", "G", "B", "X", ")", ")">>
LabelUSD == <<"(", "U", "S", "D", ")">>
LabelTexts == {LabelGBX, LabelGBP, LabelNested, LabelUSD}

Elements(texts) == {Found(t) : t \in texts} \cup {NotFound(x) : x \in LookupErrors}

\* the page of a session that has not navigated yet
NoPage ==
    [currencyLabel |-> NotFound("NoSuchElementException"),
     priceTag |-> NotFound("NoSuchElementException"),
     priceSibling |-> NotFound("NoSuchElementException")]

\* pages with the two elements of the 'lon' site: every label with the long
\* price, every price with the GBX and the USD label
LsePages ==
    { [currencyLabel |-> c, priceTag |-> p,
       priceSibling |-> NotFound("NoSuchElementException")] :
         c \in Elements(LabelTexts), p \in {Found(PriceLong)} }
    \cup
    { [currencyLabel |-> c, priceTag |-> p,
       priceSibling |-> NotFound("NoSuchElementException")] :
         c \in {Found(LabelGBX), Found(LabelUSD)}, p \in Elements(PriceTexts) }

\* pages with the element of the 'mar' site
IwebPages ==
    { [currencyLabel |-> NotFound("NoSuchElementException"),
       priceTag |-> NotFound("NoSuchElementException"),
       priceSibling |-> p] : p \in Elements(PriceTexts) }

Pages == LsePages \cup IwebPages

(***************************************************************************)
(* The extractors                                                          *)
(***************************************************************************)
\* an except clause that names NoSuchElementException alone
get_price_from_iweb_no_timeout(pg) ==
    IF pg.priceSibling.exc = "NoSuchElementException" THEN Return(None)
    ELSE IF pg.priceSibling.exc # "none" THEN Raise(pg.priceSibling.exc)
    ELSE GBPPrice(Str(Slice(Remove(pg.priceSibling.text, ","), 0, TruncLen)), GBX)

get_price_from_iweb(pg) ==
    IF pg.priceSibling.exc \in LookupErrors THEN Return(None)
    ELSE GBPPrice(Str(Slice(Remove(pg.priceSibling.text, ","), 0, TruncLen)), GBX)

\* the text cut to 8 characters before its commas are removed
get_price_from_lse_cut_first(pg) ==
    IF pg.currencyLabel.exc \in LookupErrors THEN Return(None)
    ELSE IF pg.priceTag.exc \in LookupErrors THEN Return(None)
    ELSE GBPPrice(Str(Remove(Slice(pg.priceTag.text, 0, TruncLen), ",")),
                  Strip(LastN(pg.currencyLabel.text, LabelTail), {"(", ")"}))

get_price_from_lse(pg) ==
    IF pg.currencyLabel.exc \in LookupErrors THEN Return(None)
    ELSE IF pg.priceTag.exc \in LookupErrors THEN Return(None)
    ELSE GBPPrice(Str(Slice(Remove(pg.priceTag.text, ","), 0, TruncLen)),
                  Strip(LastN(pg.currencyLabel.text, LabelTail), {"(", ")"}))

(***************************************************************************)
(* holdings.csv                                                            *)
(***************************************************************************)
ExpectedHeader == <<"symbol", "url">>

Headers ==
    { <<"symbol", "url">>, <<"sym", "link">>, <<"url", "symbol">>,
      <<"symbol", "url", "note">>, <<"symbol">> }

\* "https://www.lond", "https://www.mar", "https://www.xyz", "http://a.io"
UrlLse == <<"h","t","t","p","s",":","/","/","w","w","w",".","l","o","n","d">>
UrlIweb == <<"h","t","t","p","s",":","/","/","w","w","w",".","m","a","r">>
UrlXyz == <<"h","t","t","p","s",":","/","/","w","w","w",".","x","y","z">>
UrlShort == <<"h","t","t","p",":","/","/","a",".","i","o">>

\* csv rows: [symbol, url] rows, and a blank line (csv.reader yields [] for it)
Rows ==
    { <<"AAA", UrlLse>>, <<"BBB", UrlIweb>>, <<"BBB", UrlLse>>,
      <<"AAA", UrlXyz>>, <<"BBB", UrlShort>>, <<>> }

RECURSIVE SeqsUpTo(_, _)
SeqsUpTo(S, n) ==
    IF n = 0 THEN {<<>>}
    ELSE LET shorter == SeqsUpTo(S, n - 1) IN
         shorter \cup {Append(q, x) : q \in {r \in shorter : Len(r) = n - 1}, x \in S}

Files == {<<>>} \cup {<<h>> \o body : h \in Headers, body \in SeqsUpTo(Rows, MaxRows)}

(***************************************************************************)
(* setup_chromium_driver                                                   *)
(***************************************************************************)
FixedOptions ==
    {"--disable-extensions", "--profile-directory=Default", "--incognito",
     "--disable-plugins-discovery"}

\* webdriver.Chrome called without its options keyword starts the browser
\* with an options object of its own, which carries no argument
DefaultOptions == {}

NoCall == [called |-> FALSE, value |-> 0, tagged |-> FALSE, currency |-> <<>>,
           result |-> Raise("none")]

\* the options keyword of the call webdriver.Chrome(service=Service(...))
ChromeOptionsArg(options) == DefaultOptions

\* the options keyword of the call Service(path, options=options)
ServiceOptionsArg(options) == options

Init ==
    /\ file \in Files
    /\ pc = "start"
    /\ sessions = 0
    /\ browserOptions = {}
    /\ serviceKwargs = {}
    /\ quits = 0
    /\ holdings = <<>>
    /\ idx = 0
    /\ page = NoPage
    /\ navs = <<>>
    /\ applied = <<>>
    /\ prices = <<>>
    /\ outFile = <<>>
    /\ written = FALSE
    /\ err = "none"
    /\ unit = NoCall

\* chromium_driver = setup_chromium_driver(), outside the try statement
SetupChromiumDriver ==
    /\ pc = "start"
    /\ \/ /\ sessions' = sessions + 1
          /\ serviceKwargs' = ServiceOptionsArg(FixedOptions)
          /\ browserOptions' = ChromeOptionsArg(FixedOptions)
          /\ pc' = "read"
          /\ err' = err
       \/ /\ err' = "WebDriverException"
          /\ pc' = "exit"
          /\ UNCHANGED <<sessions, serviceKwargs, browserOptions>>
    /\ UNCHANGED <<file, quits, holdings, idx, page, navs, applied, prices,
                   outFile, written, unit>>

(***************************************************************************)
(* try: main(chromium_driver) finally: chromium_driver.quit()              *)
(***************************************************************************)
\* a run without the try statement: an exception leaves the script at once
OnRaiseSkipsQuit == "exit"

\* where control goes when main raises: the finally clause
OnRaise == "finally"

\* where control goes when main returns: the finally clause
OnReturn == "finally"

MainRaises(x) ==
    /\ err' = x
    /\ pc' = OnRaise

\* a header check that looks at the first two fields only
read_holdings_prefix(f) ==
    IF f = <<>> THEN Raise("StopIteration")
    ELSE IF ~(Len(Head(f)) >= 2 /\ Head(f)[1] = "symbol" /\ Head(f)[2] = "url")
         THEN Raise("ValueError")
    ELSE [exc |-> "none", val |-> Tail(f)]

\* header = next(reader); if header != ['symbol', 'url']: raise ValueError
read_holdings(f) ==
    IF f = <<>> THEN Raise("StopIteration")
    ELSE IF Head(f) # ExpectedHeader THEN Raise("ValueError")
    ELSE [exc |-> "none", val |-> Tail(f)]

ReadHoldings ==
    /\ pc = "read"
    /\ LET r == read_holdings(file) IN
       IF r.exc # "none"
       THEN /\ MainRaises(r.exc)
            /\ UNCHANGED <<holdings, idx>>
       ELSE /\ holdings' = r.val
            /\ idx' = 1
            /\ pc' = "loop"
            /\ err' = err
    /\ UNCHANGED <<file, sessions, browserOptions, serviceKwargs, quits, page,
                   navs, applied, prices, outFile, written, unit>>

\* for symbol, url in holdings: driver.get(url); driver.implicitly_wait(2)
Navigate ==
    /\ pc = "loop"
    /\ idx <= Len(holdings)
    /\ IF Len(holdings[idx]) # 2
       THEN /\ MainRaises("ValueError")
            /\ UNCHANGED <<page, navs>>
       ELSE \/ /\ page' \in Pages
               /\ navs' = Append(navs, [pos |-> idx, loaded |-> TRUE, page |-> page'])
               /\ pc' = "dispatch"
               /\ err' = err
            \/ /\ MainRaises("WebDriverException")
               /\ navs' = Append(navs, [pos |-> idx, loaded |-> FALSE, page |-> page])
               /\ page' = page
    /\ UNCHANGED <<file, sessions, browserOptions, serviceKwargs, quits,
                   holdings, idx, applied, prices, outFile, written, unit>>

Lon == <<"l", "o", "n">>
Mar == <<"m", "a", "r">>

SiteTag(url) == Slice(url, TagStart, TagEnd)

\* an else branch that falls back to the 'lon' extractor
ExtractorWithDefault(url) ==
    IF SiteTag(url) = Mar THEN "get_price_from_iweb" ELSE "get_price_from_lse"

\* the extractor main applies to a holding's URL, or "none"
Extractor(url) ==
    IF SiteTag(url) = Lon THEN "get_price_from_lse"
    ELSE IF SiteTag(url) = Mar THEN "get_price_from_iweb"
    ELSE "none"

Extract(url, pg) ==
    IF Extractor(url) = "get_price_from_lse" THEN get_price_from_lse(pg)
    ELSE IF Extractor(url) = "get_price_from_iweb" THEN get_price_from_iweb(pg)
    ELSE Raise("NotImplementedError")

\* prices.insert(0, (symbol, val))
PrependPrice(ps, symbol, val) == <<(<<symbol, val>>)>> \o ps

\* prices.append((symbol, val))
AppendPrice(ps, symbol, val) == Append(ps, <<symbol, val>>)

\* the if/elif/else on url[12:15] and prices.append((symbol, val))
Dispatch ==
    /\ pc = "dispatch"
    /\ LET symbol == holdings[idx][1]
           url == holdings[idx][2]
           r == Extract(url, page)
       IN  /\ applied' = IF Extractor(url) = "none" THEN applied
                         ELSE Append(applied, [pos |-> idx, fn |-> Extractor(url),
                                               page |-> page])
           /\ IF r.exc # "none"
              THEN /\ MainRaises(r.exc)
                   /\ UNCHANGED <<prices, idx>>
              ELSE /\ prices' = AppendPrice(prices, symbol, r.val)
                   /\ idx' = idx + 1
                   /\ pc' = "loop"
                   /\ err' = err
    /\ UNCHANGED <<file, sessions, browserOptions, serviceKwargs, quits,
                   holdings, page, navs, outFile, written, unit>>

\* a frame that drops the rows with an absent price
DataFrameDropNa(ps) ==
    LET kept == SelectSeq(ps, LAMBDA r : ~r[2].isNone) IN
    [i \in 1..Len(kept) |-> <<i - 1, kept[i][1], kept[i][2]>>]

\* pd.DataFrame(prices, columns=('Holding', 'GBP Price')): rows indexed from 0
DataFrame(ps) == [i \in 1..Len(ps) |-> <<i - 1, ps[i][1], ps[i][2]>>]

\* df.to_csv('prices.csv'), reached when the for loop is exhausted
WriteOutput ==
    /\ pc = "loop"
    /\ idx > Len(holdings)
    /\ \/ /\ outFile' = DataFrame(prices)
          /\ written' = TRUE
          /\ pc' = OnReturn
          /\ err' = err
       \/ /\ MainRaises("OSError")
          /\ UNCHANGED <<outFile, written>>
    /\ UNCHANGED <<file, sessions, browserOptions, serviceKwargs, quits,
                   holdings, idx, page, navs, applied, prices, unit>>

\* finally: chromium_driver.quit()
Quit ==
    /\ pc = "finally"
    /\ quits' = quits + 1
    /\ pc' = "exit"
    /\ UNCHANGED <<file, sessions, browserOptions, serviceKwargs, holdings, idx,
                   page, navs, applied, prices, outFile, written, err, unit>>

Next ==
    \/ SetupChromiumDriver
    \/ ReadHoldings
    \/ Navigate
    \/ Dispatch
    \/ WriteOutput
    \/ Quit

Spec == Init /\ [][Next]_vars

(***************************************************************************)
(* GBPPrice on its own, over amounts given in hundredths                   *)
(***************************************************************************)
Currencies == {GBP, GBX, USD}

InitPrice ==
    /\ file = <<>>
    /\ pc = "start"
    /\ sessions = 0
    /\ browserOptions = {}
    /\ serviceKwargs = {}
    /\ quits = 0
    /\ holdings = <<>>
    /\ idx = 0
    /\ page = NoPage
    /\ navs = <<>>
    /\ applied = <<>>
    /\ prices = <<>>
    /\ outFile = <<>>
    /\ written = FALSE
    /\ err = "none"
    /\ unit = NoCall

\* GBPPrice(n / 100, c) and GBPPrice(n / 100)
Construct ==
    /\ ~unit.called
    /\ \E n \in 0..MaxAmount, c \in Currencies, tagged \in BOOLEAN :
         unit' = [called |-> TRUE, value |-> n, tagged |-> tagged,
                  currency |-> IF tagged THEN c ELSE <<>>,
                  result |-> IF tagged THEN GBPPrice(Num(Norm(n, 2)), c)
                             ELSE GBPPriceDefault(Num(Norm(n, 2)))]
    /\ UNCHANGED <<file, pc, sessions, browserOptions, serviceKwargs, quits,
                   holdings, idx, page, navs, applied, prices, outFile, written,
                   err>>

NextPrice == Construct

SpecPrice == InitPrice /\ [][NextPrice]_vars

(***************************************************************************)
(* Properties.  They read the input file, the pages and the recorded       *)
(* history with operators of their own, written from the statements        *)
(* rather than from the code.                                              *)
(***************************************************************************)
\* the characters at positions 12 to 14 of url, counted from 0, are t
TagIs(url, t) == Len(url) >= 15 /\ <<url[13], url[14], url[15]>> = t

Unsupported(url) == ~TagIs(url, Lon) /\ ~TagIs(url, Mar)

\* the session exists and main has ended
Ended == pc = "exit" /\ sessions = 1

\* a required element of the page is missing or its lookup timed out
LookupFails(url, pg) ==
    \/ /\ TagIs(url, Lon)
       /\ \/ pg.currencyLabel.exc \in LookupErrors
          \/ pg.priceTag.exc \in LookupErrors
    \/ /\ TagIs(url, Mar)
       /\ pg.priceSibling.exc \in LookupErrors

RECURSIVE Pow10(_)
Pow10(k) == IF k = 0 THEN 1 ELSE 10 * Pow10(k - 1)

\* C1: once the session exists, quit() is called on it exactly once, only
\* after main has stopped, whether main returned or raised: while main runs
\* it has not been called, and a script that has ended has called it once.
C1_QuitExactlyOnce ==
    /\ sessions <= 1
    /\ quits <= sessions
    /\ quits = 1 => pc = "exit"
    /\ pc \in {"read", "loop", "dispatch", "finally"} => sessions = 1 /\ quits = 0
    /\ Ended => quits = 1

C1_Witness ==
    /\ pc = "exit"
    /\ quits = 1
    /\ err = "NotImplementedError"
    /\ Len(prices) = 1

\* a cause of a fatal error, read from the input file and the history
FatalCause ==
    \/ file = <<>>
    \/ Head(file) # <<"symbol", "url">>
    \/ \E i \in 2..Len(file) : Len(file[i]) # 2 \/ Unsupported(file[i][2])
    \/ \E k \in 1..Len(navs) : ~navs[k].loaded
    \/ \E k \in 1..Len(applied) :
         LET a == applied[k]
             url == file[a.pos + 1][2]
             el == IF TagIs(url, Lon) THEN a.page.priceTag ELSE a.page.priceSibling
         IN  /\ ~LookupFails(url, a.page)
             /\ \/ el.text = PriceNotANumber
                \/ TagIs(url, Lon) /\ a.page.currencyLabel.text = LabelUSD
    \/ err = "OSError"

\* C2: prices.csv is written if and only if no fatal error occurred: never
\* after a fatal error, and with one row per holding, absent prices
\* included, when lookups were the only failures.
C2_WrittenIffNoFatal ==
    /\ written => err = "none" /\ ~FatalCause
    /\ err # "none" => ~written /\ outFile = <<>>
    /\ Ended => (written <=> ~FatalCause)
    /\ written => /\ Len(outFile) = Len(file) - 1
                  /\ \A i \in 1..Len(outFile) : outFile[i][3] = prices[i][2]

C2_Witness ==
    /\ Ended
    /\ written
    /\ Len(outFile) = 2
    /\ outFile[1][3].isNone
    /\ ~outFile[2][3].isNone

\* C3: when a required element lookup raises NoSuchElementException or
\* TimeoutException, the holding gets the row (symbol, None) and the loop
\* moves to the next holding; a run that ends without error has navigated
\* to every holding.
C3_Step ==
    [][(pc = "dispatch" /\ LookupFails(holdings[idx][2], page))
         => /\ prices' = Append(prices, <<holdings[idx][1], None>>)
            /\ idx' = idx + 1
            /\ pc' = "loop"
            /\ err' = "none"]_vars

C3_AllNavigated ==
    (Ended /\ err = "none") =>
        /\ Len(navs) = Len(holdings)
        /\ \A k \in 1..Len(navs) : navs[k].pos = k /\ navs[k].loaded

C3_LookupFailureIsAbsentPrice == C3_Step /\ []C3_AllNavigated

C3_Witness ==
    /\ Len(prices) >= 1
    /\ prices[1][2].isNone
    /\ applied[1].page.priceSibling.exc = "TimeoutException"
    /\ applied[1].fn = "get_price_from_iweb"
    /\ Len(navs) = 2
    /\ navs[2].loaded

BadHeader == file # <<>> /\ Head(file) # <<"symbol", "url">>

\* C4: when the first row of holdings.csv is not ['symbol', 'url'], main
\* ends with ValueError and driver.get is never called.
C4_BadHeaderNoNavigation ==
    BadHeader =>
        /\ navs = <<>>
        /\ holdings = <<>>
        /\ pc \notin {"loop", "dispatch"}
        /\ (pc \in {"finally", "exit"} /\ sessions = 1) => err = "ValueError"

C4_Witness ==
    /\ file # <<>>
    /\ Head(file) = <<"symbol", "url", "note">>
    /\ Len(file) = 3
    /\ Ended
    /\ err = "ValueError"
    /\ navs = <<>>

\* C5: the results, and the rows written, are one per holding row of the
\* input file, in the input order, with the input's symbols.
C5_OrderPreserved ==
    /\ Len(prices) <= Len(file)
    /\ \A i \in 1..Len(prices) : prices[i][1] = file[i + 1][1]
    /\ written =>
         /\ Len(outFile) = Len(file) - 1
         /\ \A i \in 1..Len(outFile) :
              outFile[i][1] = i - 1 /\ outFile[i][2] = file[i + 1][1]

C5_Witness ==
    /\ written
    /\ Len(outFile) = 2
    /\ outFile[1][2] = "AAA"
    /\ outFile[2][2] = "BBB"
    /\ outFile[2][3].isNone

\* C6: a holding whose url[12:15] is neither 'lon' nor 'mar' gets no
\* extractor call and no result row, no later holding is navigated to or
\* recorded, nothing is written, and the dispatch on it raises
\* NotImplementedError, which ends main.
C6_Inv ==
    \A i \in 1..Len(holdings) :
        (Len(holdings[i]) = 2 /\ Unsupported(holdings[i][2])) =>
            /\ Len(prices) < i
            /\ \A k \in 1..Len(applied) : applied[k].pos < i
            /\ \A k \in 1..Len(navs) : navs[k].pos <= i
            /\ ~written

C6_Step ==
    [][(pc = "dispatch" /\ Unsupported(holdings[idx][2]))
         => /\ err' = "NotImplementedError"
            /\ pc' = "finally"
            /\ UNCHANGED <<prices, applied, navs, idx>>]_vars

C6_UnsupportedSiteFailsFast == []C6_Inv /\ C6_Step

C6_Witness ==
    /\ Ended
    /\ err = "NotImplementedError"
    /\ Len(holdings) = 2
    /\ Len(holdings[2]) = 2
    /\ holdings[2][2] = UrlShort
    /\ Len(navs) = 2
    /\ Len(prices) = 1

\* C7: GBPPrice yields the amount in GBP: for 'GBP', and when no tag is
\* given, the value itself; for 'GBX' the value times 0.01.  The argument
\* is unit.value hundredths; the result is compared in ten-thousandths.
C7_NormalizedToGBP ==
    unit.called =>
        /\ (~unit.tagged \/ unit.currency \in {GBP, GBX}) => unit.result.exc = "none"
        /\ unit.result.exc = "none" =>
             LET r == unit.result.val IN
             /\ ~r.isNone
             /\ r.e <= 4
             /\ (~unit.tagged \/ unit.currency = GBP)
                  => r.m * Pow10(4 - r.e) = unit.value * 100
             /\ (unit.tagged /\ unit.currency = GBX)
                  => r.m * Pow10(4 - r.e) = unit.value

C7_Witness ==
    /\ unit.called
    /\ unit.tagged
    /\ unit.currency = GBX
    /\ unit.value = 50
    /\ unit.result = Return([isNone |-> FALSE, m |-> 5, e |-> 3])

\* the 'lon' extractor calls that read an unsupported currency tag
UnsupportedCurrencyCalls ==
    { k \in 1..Len(applied) :
        /\ applied[k].fn = "get_price_from_lse"
        /\ applied[k].page.currencyLabel.exc = "none"
        /\ applied[k].page.currencyLabel.text = LabelUSD }

\* C8 as stated: whenever the 'lon' strategy reads a currency tag other
\* than 'GBP' and 'GBX', NotImplementedError ends the run and no row, not
\* even an absent price, is recorded for the holding.
C8_Original ==
    \A k \in UnsupportedCurrencyCalls :
        /\ Len(prices) < applied[k].pos
        /\ err = "NotImplementedError"

\* C8 amended: when the 'lon' strategy reads an unsupported currency tag and
\* finds the price element, the run ends and no row is recorded for the
\* holding: with NotImplementedError if the price text is a number, with
\* ValueError if it is not; when the price element lookup fails, the row
\* (symbol, None) is recorded.
C8_UnsupportedCurrency ==
    \A k \in UnsupportedCurrencyCalls :
        LET a == applied[k] IN
        IF a.page.priceTag.exc \in LookupErrors
        THEN /\ Len(prices) >= a.pos
             /\ prices[a.pos] = <<file[a.pos + 1][1], None>>
        ELSE /\ Len(prices) < a.pos
             /\ pc \in {"finally", "exit"}
             /\ err = IF a.page.priceTag.text = PriceNotANumber
                      THEN "ValueError" ELSE "NotImplementedError"

C8_Witness ==
    /\ Ended
    /\ err = "NotImplementedError"
    /\ \E k \in UnsupportedCurrencyCalls :
         /\ applied[k].pos = 2
         /\ applied[k].page.priceTag.text = PriceLong
    /\ Len(prices) = 1

\* C9: the browser of the one session is started with the options object
\* that carries the four fixed arguments.
C9_FixedOptionsApplied ==
    sessions >= 1 => sessions = 1 /\ browserOptions = FixedOptions

\* the text with its commas removed, then cut to its first 8 characters
Cleaned(text) ==
    LET t == SelectSeq(text, LAMBDA c : c # ",") IN
    SubSeq(t, 1, IF Len(t) < 8 THEN Len(t) ELSE 8)

\* the numbers the cleaned texts of the pages denote: "1234567." and "12.50"
NumberOf(t) ==
    CASE t = <<"1", "2", "3", "4", "5", "6", "7", ".">> -> [m |-> 1234567, e |-> 0]
      [] t = <<"1", "2", ".", "5", "0">> -> [m |-> 1250, e |-> 2]
      [] OTHER -> [m |-> 0 - 1, e |-> 0]

\* the last 5 characters of the labels of the pages, parentheses stripped
TagOf(label) ==
    CASE label = LabelGBX -> "GBX"
      [] label = LabelGBP -> "GBP"
      [] label = LabelNested -> "GBX"
      [] OTHER -> "other"

\* price p is the number n read with the currency tag
Converted(p, n, tag) ==
    /\ ~p.isNone
    /\ tag \in {"GBP", "GBX"}
    /\ LET ne == IF tag = "GBX" THEN n.e + 2 ELSE n.e IN
       p.m * Pow10(ne) = n.m * Pow10(p.e)

\* C10: the extractor is chosen by url[12:15] alone and reads the page its
\* holding's navigation loaded; a recorded price is the element text with
\* commas removed and cut to 8 characters, read as a number and scaled by
\* 0.01 for 'mar', converted with the tag from the label for 'lon'.
C10_StrategyAndCurrency ==
    \A k \in 1..Len(applied) :
        LET a == applied[k]
            url == file[a.pos + 1][2]
            lon == TagIs(url, Lon)
            el == IF lon THEN a.page.priceTag ELSE a.page.priceSibling
        IN  /\ a.pos = k
            /\ lon \/ TagIs(url, Mar)
            /\ a.fn = IF lon THEN "get_price_from_lse" ELSE "get_price_from_iweb"
            /\ navs[a.pos].pos = a.pos
            /\ navs[a.pos].loaded
            /\ navs[a.pos].page = a.page
            /\ (Len(prices) >= a.pos /\ ~LookupFails(url, a.page)) =>
                 Converted(prices[a.pos][2], NumberOf(Cleaned(el.text)),
                           IF lon THEN TagOf(a.page.currencyLabel.text) ELSE "GBX")

C10_Witness ==
    /\ Len(prices) = 2
    /\ applied[1].fn = "get_price_from_lse"
    /\ applied[1].page.currencyLabel.text = LabelNested
    /\ applied[1].page.priceTag.text = PriceLong
    /\ prices[1][2] = [isNone |-> FALSE, m |-> 1234567, e |-> 2]
    /\ applied[2].fn = "get_price_from_iweb"
    /\ applied[2].page.priceSibling.text = PriceShort
    /\ prices[2][2] = [isNone |-> FALSE, m |-> 125, e |-> 3]

====
